---- MODULE Spec2Model ----
(***************************************************************************)
(* Shut The Box (stb.py): the move generator, the two choosers, play(),    *)
(* calc_score() and the Monte Carlo loop.                                  *)
(*                                                                         *)
(*   Spec        one call of play() after the other, turn by turn          *)
(*   SpecFn      calc_score, choices and choose_heur applied to inputs     *)
(*   SpecDriver  the Monte Carlo loop, one game per step                   *)
(***************************************************************************)
EXTENDS Integers, Sequences, FiniteSets

VARIABLES
    chooser,   \* args.chooser: "heur" or "random"
    pc,        \* position in play(), or the function applied (SpecFn)
    cur,       \* play(): the digits still available
    roll,      \* play(): the dice total of this turn
    moves,     \* play(): the list choices(cur, roll)
    move,      \* play(): the chooser's pick
    score,     \* the value returned by play() / calc_score()
    exit,      \* how the while loop of play() was left: "break" or "while"
    rolls,     \* history: dice rolls of this game
    removed,   \* history: union of the moves applied in this game
    ngames,    \* args.ngames
    played,    \* iterations of the Monte Carlo loop completed
    wins, mins, maxs, tot, hist,   \* the stats
    bin,       \* the histogram index of the last score
    results,   \* history: <<exit, score>> of the games played so far
    dpc        \* position in the driver

vars == <<chooser, pc, cur, roll, moves, move, score, exit, rolls, removed,
          ngames, played, wins, mins, maxs, tot, hist, bin, results, dpc>>

gameVars == <<pc, cur, roll, moves, move, score, exit, rolls, removed>>
statVars == <<ngames, played, wins, mins, maxs, tot, hist, bin, results, dpc>>

(***************************************************************************)
(* Program constants and bounds                                            *)
(***************************************************************************)
NDigits == 9              \* set(range(1, 10))
DieSides == 6             \* random.randrange(1, 7)
MinsSentinel == 123456789 \* mins = 123456789
nbins == 20               \* nbins = 20

MaxRolls == 12            \* cap of the history counter rolls
MaxTarget == 13           \* SpecFn: targets 0..MaxTarget
HeurDigits == 5           \* SpecFn: candidate moves are subsets of 1..HeurDigits
MaxMoves == 2             \* SpecFn: candidate lists of length 0..MaxMoves
MaxGames == 2             \* SpecDriver: ngames up to MaxGames

Digits == 1..NDigits
Choosers == {"heur", "random"}
None == -1                \* a local not assigned yet

(***************************************************************************)
(* Helpers: Python's sorted(), min(), tuple comparison                     *)
(***************************************************************************)
Min(S) == CHOOSE x \in S : \A y \in S : x <= y
Max(S) == CHOOSE x \in S : \A y \in S : x >= y

RECURSIVE SortedAsc(_)
SortedAsc(S) == IF S = {} THEN <<>>
                ELSE LET m == Min(S) IN <<m>> \o SortedAsc(S \ {m})

RECURSIVE SortedDesc(_)
SortedDesc(S) == IF S = {} THEN <<>>
                 ELSE LET m == Max(S) IN <<m>> \o SortedDesc(S \ {m})

SeqToSet(s) == {s[i] : i \in 1..Len(s)}

\* Python's a < b on tuples of integers
RECURSIVE TupleLess(_, _)
TupleLess(a, b) ==
    IF b = <<>> THEN FALSE
    ELSE IF a = <<>> THEN TRUE
    ELSE IF Head(a) # Head(b) THEN Head(a) < Head(b)
    ELSE TupleLess(Tail(a), Tail(b))

(***************************************************************************)
(* calc_score                                                              *)
(***************************************************************************)
RECURSIVE RunningSum(_, _)
RunningSum(digits, t) ==
    IF digits = <<>> THEN t
    ELSE RunningSum(Tail(digits), t * 10 + Head(digits))

\* calc_score with the digits put in descending order
CalcScoreReversed(c) ==
    LET digits == SortedDesc(c)
    IN  RunningSum(digits, 0)

CalcScore(c) ==
    LET digits == SortedAsc(c)
    IN  RunningSum(digits, 0)

(***************************************************************************)
(* choices module: choices(cur, roll) and canon_choices(cs, reverse)       *)
(***************************************************************************)
\* the subsets of the digits ds (a descending list) that sum to target,
\* largest digits first
RECURSIVE ChoicesFrom(_, _)
ChoicesFrom(ds, target) ==
    IF target = 0 THEN << {} >>
    ELSE IF ds = <<>> THEN <<>>
    ELSE LET d == Head(ds)
             rest == Tail(ds)
             sub == IF d <= target THEN ChoicesFrom(rest, target - d) ELSE <<>>
             with == [i \in 1..Len(sub) |-> sub[i] \cup {d}]
         IN  with \o ChoicesFrom(rest, target)

\* choices that never uses the largest available digit
ChoicesSkipLargest(c, target) ==
    IF target < 1 \/ c = {} THEN <<>>
    ELSE ChoicesFrom(Tail(SortedDesc(c)), target)

Choices(c, target) ==
    IF target < 1 THEN <<>>
    ELSE ChoicesFrom(SortedDesc(c), target)

\* insert the tuple t into the list s, sorted descending (reverse=True)
RECURSIVE InsertDesc(_, _)
InsertDesc(t, s) ==
    IF s = <<>> THEN <<t>>
    ELSE IF TupleLess(Head(s), t) THEN <<t>> \o s
    ELSE <<Head(s)>> \o InsertDesc(t, Tail(s))

RECURSIVE InsertAsc(_, _)
InsertAsc(t, s) ==
    IF s = <<>> THEN <<t>>
    ELSE IF TupleLess(t, Head(s)) THEN <<t>> \o s
    ELSE <<Head(s)>> \o InsertAsc(t, Tail(s))

RECURSIVE SortTuples(_, _)
SortTuples(s, reverse) ==
    IF s = <<>> THEN <<>>
    ELSE IF reverse THEN InsertDesc(Head(s), SortTuples(Tail(s), reverse))
    ELSE InsertAsc(Head(s), SortTuples(Tail(s), reverse))

CanonChoices(cs, reverse) ==
    SortTuples([i \in 1..Len(cs) |->
                   IF reverse THEN SortedDesc(cs[i]) ELSE SortedAsc(cs[i])],
               reverse)

(***************************************************************************)
(* The choosers                                                            *)
(***************************************************************************)
\* choose_heur without the restriction to the minimum-length choices
ChooseHeurAnyLength(c, ms) ==
    LET cmoves == CanonChoices(ms, TRUE)
    IN  SeqToSet(cmoves[1])

\* choose_heur taking the last of the canonical choices
ChooseHeurSmallest(c, ms) ==
    LET lens == {Cardinality(ms[i]) : i \in 1..Len(ms)}
        minl == Min(lens)
        shortmoves == SelectSeq(ms, LAMBDA m : Cardinality(m) = minl)
        cmoves == CanonChoices(shortmoves, TRUE)
    IN  SeqToSet(cmoves[Len(cmoves)])

\* choose_heur returning the first of the minimum-length choices as listed
ChooseHeurFirstShort(c, ms) ==
    LET lens == {Cardinality(ms[i]) : i \in 1..Len(ms)}
        minl == Min(lens)
        shortmoves == SelectSeq(ms, LAMBDA m : Cardinality(m) = minl)
    IN  shortmoves[1]

\* choose_heur(cur, moves), called with len(moves) > 0
ChooseHeur(c, ms) ==
    LET lens == {Cardinality(ms[i]) : i \in 1..Len(ms)}
        minl == Min(lens)
        shortmoves == SelectSeq(ms, LAMBDA m : Cardinality(m) = minl)
        cmoves == CanonChoices(shortmoves, TRUE)
    IN  SeqToSet(cmoves[1])

\* choose_random(cur, moves): any element of the list
ChooseRandom(c, ms) == {ms[i] : i \in 1..Len(ms)}

\* the picks chooser ch can return for (c, ms), ms not empty
Picks(ch, c, ms) ==
    IF ch = "heur" THEN {ChooseHeur(c, ms)} ELSE ChooseRandom(c, ms)

\* dice that can show 0: random.randrange(0, 7) + random.randrange(0, 7)
RollsFromZero == {d1 + d2 : d1 \in 0..DieSides, d2 \in 0..DieSides}

\* random.randrange(1, 7) + random.randrange(1, 7)
Rolls == {d1 + d2 : d1 \in 1..DieSides, d2 \in 1..DieSides}

(***************************************************************************)
(* The stats of the Monte Carlo driver                                     *)
(***************************************************************************)
\* the stats with mins starting at 0
StatsInitMinsZero ==
    /\ wins = 0
    /\ maxs = 0
    /\ mins = 0
    /\ tot = 0
    /\ hist = [b \in 0..(nbins - 1) |-> 0]
    /\ played = 0
    /\ bin = None
    /\ results = <<>>

StatsInit ==
    /\ wins = 0
    /\ maxs = 0
    /\ mins = MinsSentinel
    /\ tot = 0
    /\ hist = [b \in 0..(nbins - 1) |-> 0]
    /\ played = 0
    /\ bin = None
    /\ results = <<>>

(***************************************************************************)
(* play(chooser)                                                           *)
(***************************************************************************)
\* entry of play(): all digits available, nothing rolled yet
PlayEntry ==
    /\ cur = Digits
    /\ roll = None
    /\ moves = <<>>
    /\ move = {}
    /\ score = None
    /\ exit = "none"
    /\ rolls = 0
    /\ removed = {}

Init ==
    /\ chooser \in Choosers
    /\ pc = "roll"
    /\ PlayEntry
    /\ ngames = 1
    /\ dpc = "play"
    /\ StatsInit

\* a turn that asks the chooser whatever choices() returned
RollNoBreak ==
    /\ pc = "roll"
    /\ rolls < MaxRolls
    /\ \E r \in Rolls :
          /\ roll' = r
          /\ moves' = Choices(cur, r)
          /\ pc' = "choose"
          /\ exit' = exit
    /\ rolls' = rolls + 1
    /\ UNCHANGED <<chooser, cur, move, score, removed, statVars>>

\* a turn that takes its choices from the full board
RollFullBoard ==
    /\ pc = "roll"
    /\ rolls < MaxRolls
    /\ \E r \in Rolls :
          /\ roll' = r
          /\ moves' = Choices(Digits, r)
          /\ IF Len(moves') = 0
             THEN pc' = "return" /\ exit' = "break"
             ELSE pc' = "choose" /\ exit' = exit
    /\ rolls' = rolls + 1
    /\ UNCHANGED <<chooser, cur, move, score, removed, statVars>>

\* roll the dice, get the choices, break if there are none
Roll ==
    /\ pc = "roll"
    /\ rolls < MaxRolls
    /\ \E r \in Rolls :
          /\ roll' = r
          /\ moves' = Choices(cur, r)
          /\ IF Len(moves') = 0
             THEN pc' = "return" /\ exit' = "break"
             ELSE pc' = "choose" /\ exit' = exit
    /\ rolls' = rolls + 1
    /\ UNCHANGED <<chooser, cur, move, score, removed, statVars>>

\* move = chooser(cur, moves); an empty list fails the assertion of
\* choose_heur and raises in random.choice
Choose ==
    /\ pc = "choose"
    /\ IF Len(moves) = 0
       THEN pc' = "failed" /\ move' = move
       ELSE /\ move' \in Picks(chooser, cur, moves)
            /\ pc' = "remove"
    /\ UNCHANGED <<chooser, cur, roll, moves, score, exit, rolls, removed,
                   statVars>>

\* a removal that rolls again without the test of the while loop
RemoveNoTest ==
    /\ pc = "remove"
    /\ cur' = cur \ move
    /\ removed' = removed \cup move
    /\ pc' = "roll"
    /\ exit' = exit
    /\ UNCHANGED <<chooser, roll, moves, move, score, rolls, statVars>>

\* a removal that leaves the board as it is
RemoveNothing ==
    /\ pc = "remove"
    /\ cur' = cur
    /\ removed' = removed \cup move
    /\ IF cur' = {}
       THEN pc' = "return" /\ exit' = "while"
       ELSE pc' = "roll" /\ exit' = exit
    /\ UNCHANGED <<chooser, roll, moves, move, score, rolls, statVars>>

\* a removal that takes only the largest digit of the move
RemoveLargestOnly ==
    /\ pc = "remove"
    /\ cur' = cur \ {Max(move)}
    /\ removed' = removed \cup move
    /\ IF cur' = {}
       THEN pc' = "return" /\ exit' = "while"
       ELSE pc' = "roll" /\ exit' = exit
    /\ UNCHANGED <<chooser, roll, moves, move, score, rolls, statVars>>

\* cur -= move, then the test of the while loop
Remove ==
    /\ pc = "remove"
    /\ cur' = cur \ move
    /\ removed' = removed \cup move
    /\ IF cur' = {}
       THEN pc' = "return" /\ exit' = "while"
       ELSE pc' = "roll" /\ exit' = exit
    /\ UNCHANGED <<chooser, roll, moves, move, score, rolls, statVars>>

\* return calc_score(cur)
Return ==
    /\ pc = "return"
    /\ score' = CalcScore(cur)
    /\ pc' = "done"
    /\ UNCHANGED <<chooser, cur, roll, moves, move, exit, rolls, removed,
                   statVars>>

\* a next call of play() that goes on with the board of the last game
CallKeepsBoard ==
    /\ pc = "done"
    /\ pc' = "roll"
    /\ cur' = cur
    /\ roll' = None
    /\ moves' = <<>>
    /\ move' = {}
    /\ score' = None
    /\ exit' = "none"
    /\ rolls' = 0
    /\ removed' = {}
    /\ UNCHANGED <<chooser, statVars>>

\* the next call of play()
Call ==
    /\ pc = "done"
    /\ pc' = "roll"
    /\ cur' = Digits
    /\ roll' = None
    /\ moves' = <<>>
    /\ move' = {}
    /\ score' = None
    /\ exit' = "none"
    /\ rolls' = 0
    /\ removed' = {}
    /\ UNCHANGED <<chooser, statVars>>

Next == Roll \/ Choose \/ Remove \/ Return \/ Call

Spec == Init /\ [][Next]_vars

(***************************************************************************)
(* The histogram index                                                     *)
(***************************************************************************)
\* 10 ** (9 * b / 20) rounded up, b = 1..20
BinEdges ==
    <<3, 8, 23, 64, 178, 502, 1413, 3982, 11221, 31623, 89126, 251189,
      707946, 1995263, 5623414, 15848932, 44668360, 125892542, 354813390,
      1000000000>>

\* the bin rounded up instead of down
BinRoundsUp(sc) == Cardinality({b \in 1..nbins : sc + 1 >= BinEdges[b]}) + 1

\* floor(nbins * log10(sc + 1) / 9)
Bin(sc) == Cardinality({b \in 1..nbins : sc + 1 >= BinEdges[b]})

(***************************************************************************)
(* SpecFn: choices, calc_score and choose_heur applied to given arguments  *)
(***************************************************************************)
\* the candidate lists of length n handed to choose_heur: any subsets of
\* 1..HeurDigits, or choices of the full board for roll r in any order
CandidateLists(n) == [1..n -> SUBSET (1..HeurDigits)]
ChoiceLists(r, n) == [1..n -> SeqToSet(Choices(Digits, r))]

\* the scores binned: those of all digit sets, and those next to a bin edge
ScoreInputs ==
    {CalcScore(c) : c \in SUBSET Digits}
    \cup UNION {{BinEdges[b] - 2, BinEdges[b] - 1} : b \in 1..nbins}

InitFn ==
    /\ chooser = "heur"
    /\ \/ /\ pc = "call_choices"
          /\ cur \in SUBSET Digits
          /\ roll \in 0..MaxTarget
          /\ moves = <<>>
          /\ score = None
       \/ /\ pc = "call_calc_score"
          /\ cur \in SUBSET Digits
          /\ roll = None
          /\ moves = <<>>
          /\ score = None
       \/ /\ pc = "call_choose_heur"
          /\ cur = 1..HeurDigits
          /\ roll = None
          /\ \E n \in 0..MaxMoves : moves \in CandidateLists(n)
          /\ score = None
       \/ /\ pc = "call_choose_heur"
          /\ cur = Digits
          /\ roll \in Rolls
          /\ \E n \in 0..MaxMoves : moves \in ChoiceLists(roll, n)
          /\ score = None
       \/ /\ pc = "call_bin"
          /\ cur = {}
          /\ roll = None
          /\ moves = <<>>
          /\ score \in ScoreInputs
    /\ move = {}
    /\ exit = "none"
    /\ rolls = 0
    /\ removed = {}
    /\ ngames = 0
    /\ dpc = "none"
    /\ StatsInit

\* moves = choices(cur, roll)
ApplyChoices ==
    /\ pc = "call_choices"
    /\ moves' = Choices(cur, roll)
    /\ pc' = "choices_returned"
    /\ UNCHANGED <<chooser, cur, roll, move, score, exit, rolls, removed,
                   statVars>>

\* score = calc_score(cur)
ApplyCalcScore ==
    /\ pc = "call_calc_score"
    /\ score' = CalcScore(cur)
    /\ pc' = "calc_score_returned"
    /\ UNCHANGED <<chooser, cur, roll, moves, move, exit, rolls, removed,
                   statVars>>

\* move = choose_heur(cur, moves); assert len(moves) > 0
ApplyChooseHeur ==
    /\ pc = "call_choose_heur"
    /\ IF Len(moves) > 0
       THEN move' = ChooseHeur(cur, moves) /\ pc' = "choose_heur_returned"
       ELSE move' = move /\ pc' = "failed"
    /\ UNCHANGED <<chooser, cur, roll, moves, score, exit, rolls, removed,
                   statVars>>

\* bin = floor(nbins * log10(score + 1) / 9); hist[bin] += 1
ApplyBin ==
    /\ pc = "call_bin"
    /\ bin' = Bin(score)
    /\ IF bin' \in DOMAIN hist
       THEN hist' = [hist EXCEPT ![bin'] = @ + 1] /\ pc' = "bin_returned"
       ELSE hist' = hist /\ pc' = "IndexError"
    /\ UNCHANGED <<chooser, cur, roll, moves, move, score, exit, rolls,
                   removed, ngames, played, wins, mins, maxs, tot, results,
                   dpc>>

NextFn == ApplyChoices \/ ApplyCalcScore \/ ApplyChooseHeur \/ ApplyBin

SpecFn == InitFn /\ [][NextFn]_vars

(***************************************************************************)
(* SpecDriver: the Monte Carlo loop                                        *)
(***************************************************************************)
\* the boards one turn of play() can leave from board c (no break)
TurnResults(ch, c) ==
    UNION {LET ms == Choices(c, r)
           IN  IF Len(ms) = 0 THEN {}
               ELSE {c \ m : m \in Picks(ch, c, ms)} : r \in Rolls}

\* the boards play() can pass through
RECURSIVE Boards(_, _, _)
Boards(ch, frontier, seen) ==
    IF frontier = {} THEN seen
    ELSE LET next == UNION {TurnResults(ch, c) : c \in frontier} \ seen
         IN  Boards(ch, next, seen \cup next)

\* the <<exit, score>> pairs play(ch) can end with
PlayResults(ch) ==
    LET B == Boards(ch, {Digits}, {Digits})
        stuck == {c \in B : c # {} /\ \E r \in Rolls : Len(Choices(c, r)) = 0}
    IN  {<<"while", CalcScore(c)>> : c \in B \cap {{}}}
        \cup {<<"break", CalcScore(c)>> : c \in stuck}

HeurResults == PlayResults("heur")
RandomResults == PlayResults("random")
Results(ch) == IF ch = "heur" THEN HeurResults ELSE RandomResults

InitDriver ==
    /\ chooser \in Choosers
    /\ ngames \in (-1)..MaxGames
    /\ dpc = "loop"
    /\ StatsInit
    /\ pc = "none"
    /\ cur = {}
    /\ roll = None
    /\ moves = <<>>
    /\ move = {}
    /\ score = None
    /\ exit = "none"
    /\ rolls = 0
    /\ removed = {}

\* an iteration that keeps the smaller of maxs and score
GameKeepsSmallerMax ==
    /\ dpc = "loop"
    /\ played < ngames
    /\ \E res \in Results(chooser) :
          /\ exit' = res[1]
          /\ score' = res[2]
    /\ wins' = IF score' = 0 THEN wins + 1 ELSE wins
    /\ mins' = IF score' < mins THEN score' ELSE mins
    /\ maxs' = IF score' < maxs THEN score' ELSE maxs
    /\ tot' = tot + score'
    /\ results' = Append(results, <<exit', score'>>)
    /\ bin' = Bin(score')
    /\ IF bin' \in DOMAIN hist
       THEN /\ hist' = [hist EXCEPT ![bin'] = @ + 1]
            /\ played' = played + 1
            /\ dpc' = "loop"
       ELSE /\ hist' = hist
            /\ played' = played
            /\ dpc' = "IndexError"
    /\ UNCHANGED <<chooser, ngames, pc, cur, roll, moves, move, rolls, removed>>

\* an iteration that sets the counter of the bin to 1
GameSetsBin ==
    /\ dpc = "loop"
    /\ played < ngames
    /\ \E res \in Results(chooser) :
          /\ exit' = res[1]
          /\ score' = res[2]
    /\ wins' = IF score' = 0 THEN wins + 1 ELSE wins
    /\ mins' = IF score' < mins THEN score' ELSE mins
    /\ maxs' = IF score' > maxs THEN score' ELSE maxs
    /\ tot' = tot + score'
    /\ results' = Append(results, <<exit', score'>>)
    /\ bin' = Bin(score')
    /\ IF bin' \in DOMAIN hist
       THEN /\ hist' = [hist EXCEPT ![bin'] = 1]
            /\ played' = played + 1
            /\ dpc' = "loop"
       ELSE /\ hist' = hist
            /\ played' = played
            /\ dpc' = "IndexError"
    /\ UNCHANGED <<chooser, ngames, pc, cur, roll, moves, move, rolls, removed>>

\* an iteration that counts every score up to 1 as a win
GameWinsUpToOne ==
    /\ dpc = "loop"
    /\ played < ngames
    /\ \E res \in Results(chooser) :
          /\ exit' = res[1]
          /\ score' = res[2]
    /\ wins' = IF score' <= 1 THEN wins + 1 ELSE wins
    /\ mins' = IF score' < mins THEN score' ELSE mins
    /\ maxs' = IF score' > maxs THEN score' ELSE maxs
    /\ tot' = tot + score'
    /\ results' = Append(results, <<exit', score'>>)
    /\ bin' = Bin(score')
    /\ IF bin' \in DOMAIN hist
       THEN /\ hist' = [hist EXCEPT ![bin'] = @ + 1]
            /\ played' = played + 1
            /\ dpc' = "loop"
       ELSE /\ hist' = hist
            /\ played' = played
            /\ dpc' = "IndexError"
    /\ UNCHANGED <<chooser, ngames, pc, cur, roll, moves, move, rolls, removed>>

\* one iteration of the loop: play a game and maintain the stats;
\* hist[bin] raises IndexError when bin is no index of hist
Game ==
    /\ dpc = "loop"
    /\ played < ngames
    /\ \E res \in Results(chooser) :
          /\ exit' = res[1]
          /\ score' = res[2]
    /\ wins' = IF score' = 0 THEN wins + 1 ELSE wins
    /\ mins' = IF score' < mins THEN score' ELSE mins
    /\ maxs' = IF score' > maxs THEN score' ELSE maxs
    /\ tot' = tot + score'
    /\ results' = Append(results, <<exit', score'>>)
    /\ bin' = Bin(score')
    /\ IF bin' \in DOMAIN hist
       THEN /\ hist' = [hist EXCEPT ![bin'] = @ + 1]
            /\ played' = played + 1
            /\ dpc' = "loop"
       ELSE /\ hist' = hist
            /\ played' = played
            /\ dpc' = "IndexError"
    /\ UNCHANGED <<chooser, ngames, pc, cur, roll, moves, move, rolls, removed>>

\* the loop is over: print wins, min, max and mean = tot / ngames, which
\* raises ZeroDivisionError when ngames is 0
Report ==
    /\ dpc = "loop"
    /\ played >= ngames
    /\ dpc' = IF ngames = 0 THEN "ZeroDivisionError" ELSE "reported"
    /\ UNCHANGED <<chooser, gameVars, ngames, played, wins, mins, maxs, tot,
                   hist, bin, results>>

NextDriver == Game \/ Report

SpecDriver == InitDriver /\ [][NextDriver]_vars

(***************************************************************************)
(* Properties of play()                                                    *)
(***************************************************************************)
RECURSIVE SetSum(_)
SetSum(S) == IF S = {} THEN 0
             ELSE LET x == CHOOSE y \in S : TRUE IN x + SetSum(S \ {x})

\* every subset of 1..9 with its sum
SubsetTotals == {<<S, SetSum(S)>> : S \in SUBSET Digits}

\* the non-empty subsets of D that sum to t
LegalMoves(D, t) ==
    {p[1] : p \in {q \in SubsetTotals : q[2] = t /\ q[1] # {} /\ q[1] \subseteq D}}

RECURSIVE Pow10(_)
Pow10(n) == IF n = 0 THEN 1 ELSE 10 * Pow10(n - 1)

\* the integer whose decimal digits are the elements of S, ascending
DecimalOf(S) ==
    LET place(d) == Pow10(Cardinality({e \in S : e > d}))
        RECURSIVE total(_)
        total(T) == IF T = {} THEN 0
                    ELSE LET d == CHOOSE e \in T : TRUE
                         IN  d * place(d) + total(T \ {d})
    IN  total(S)

InProgress == exit = "none"
Stuck == exit = "break"
Exhausted == exit = "while"

\* steps play() has left at most: three per digit, then the return
Rank ==
    CASE pc = "done" -> 0
      [] pc = "return" -> 1
      [] pc = "remove" -> 3 * Cardinality(cur)
      [] pc = "choose" -> 3 * Cardinality(cur) + 1
      [] pc = "roll" -> 3 * Cardinality(cur) + 2
      [] OTHER -> -1

\* C1: every game ends, after at most 9 dice rolls, under both choosers:
\* the rolls of a game never exceed 9, play() is at one of its four steps
\* until it has returned (each can be taken: the cap MaxRolls is not
\* reached), and every step brings the return nearer
PlayTerminates ==
    /\ [](rolls <= NDigits /\ Rank >= 0)
    /\ [](pc # "done" =>
            /\ pc \in {"roll", "choose", "remove", "return"}
            /\ rolls < MaxRolls)
    /\ [][pc # "done" => Rank' < Rank]_vars

NineRolls == pc = "done" /\ rolls = NDigits

\* C2: a game starts IN_PROGRESS on {1..9}; it becomes STUCK exactly when no
\* subset of the digits sums to the roll and EXHAUSTED exactly when a removal
\* empties the digit set; otherwise it stays IN_PROGRESS; once terminal
\* nothing is rolled or removed
GameStateMachine ==
    /\ InProgress /\ cur = Digits
    /\ [](Stuck => cur # {} /\ LegalMoves(cur, roll) = {})
    /\ [](Exhausted => cur = {})
    /\ [](pc \in {"roll", "choose", "remove"} => InProgress /\ cur # {})
    /\ [](pc \in {"return", "done"} => ~InProgress)
    /\ [][ /\ (pc = "roll" /\ pc' # "roll") =>
                (Stuck' <=> LegalMoves(cur, roll') = {})
           /\ pc = "remove" =>
                (Exhausted' <=> cur' = {}) /\ (InProgress' <=> cur' # {})
           /\ (~InProgress /\ pc' # "roll") =>
                /\ cur' = cur /\ rolls' = rolls /\ roll' = roll
                /\ removed' = removed /\ exit' = exit
           /\ (pc = "done" /\ pc' = "roll") => InProgress' /\ cur' = Digits
         ]_vars

ExhaustedGame == pc = "done" /\ Exhausted /\ chooser = "heur"

\* C3: the chooser is only ever called with a non-empty list of choices
ChooserGetsChoices ==
    /\ pc = "choose" => Len(moves) > 0
    /\ pc # "failed"

RandomChooserCalled ==
    pc = "choose" /\ chooser = "random" /\ Len(moves) > 1 /\ rolls > 1

\* C4: the move picked is one of the choices: a non-empty subset of the
\* current digits that sums to the roll
MoveIsLegal ==
    pc = "remove" =>
        /\ \E i \in 1..Len(moves) : moves[i] = move
        /\ move # {}
        /\ move \subseteq cur
        /\ SetSum(move) = roll

HeurPicksPair ==
    pc = "remove" /\ chooser = "heur" /\ Cardinality(move) >= 2

\* C5: the moves of a game are pairwise disjoint and the score returned is
\* the ascending concatenation of the digits in none of them
ScoreOfUnremoved ==
    /\ pc = "remove" => move \cap removed = {}
    /\ pc = "done" =>
          /\ cur = Digits \ removed
          /\ score = DecimalOf(Digits \ removed)

StuckAfterThreeMoves ==
    pc = "done" /\ Stuck /\ rolls = 4 /\ Cardinality(removed) >= 4

(***************************************************************************)
(* Properties of choices, calc_score and choose_heur                       *)
(***************************************************************************)
\* choices(D, r) lists exactly the non-empty subsets of D that sum to r,
\* each once
ListsLegalMoves(ms, D, r) ==
    /\ SeqToSet(ms) = {S \in SUBSET D : S # {} /\ SetSum(S) = r}
    /\ \A i, j \in 1..Len(ms) : i # j => ms[i] # ms[j]

CalcScoreDecimal ==
    pc = "calc_score_returned" =>
        /\ score = DecimalOf(cur)
        /\ cur = {} => score = 0
        /\ cur = Digits => score = 123456789
        /\ cur = {9} => score = 9
        /\ cur = {1, 9} => score = 19

ScoreOf259 == pc = "calc_score_returned" /\ cur = {2, 5, 9} /\ score = 259

\* C8: choose_heur returns a candidate of minimum cardinality;
\* [{3},{1,2}] gives {3}
HeurPicksShortest ==
    pc = "choose_heur_returned" =>
        /\ \E i \in 1..Len(moves) : moves[i] = move
        /\ \A i \in 1..Len(moves) : Cardinality(move) <= Cardinality(moves[i])
        /\ moves = << {3}, {1, 2} >> => move = {3}

ShortestOfTwo ==
    pc = "choose_heur_returned" /\ moves = << {3}, {1, 2} >> /\ move = {3}

\* a <= b in lexicographic order
LexLeq(a, b) ==
    \/ a = b
    \/ \E k \in 1..Len(b) :
          /\ \A i \in 1..(k - 1) : i <= Len(a) /\ a[i] = b[i]
          /\ k > Len(a) \/ a[k] < b[k]

\* C9: among the candidates of minimum cardinality choose_heur returns the
\* one whose digits in descending order are lexicographically greatest;
\* [{4,5},{3,6}] gives {3,6}
HeurPicksLargest ==
    pc = "choose_heur_returned" =>
        LET short == {m \in SeqToSet(moves) :
                         \A i \in 1..Len(moves) :
                             Cardinality(m) <= Cardinality(moves[i])}
        IN  /\ move \in short
            /\ \A m \in short : LexLeq(SortedDesc(m), SortedDesc(move))
            /\ moves = << {4, 5}, {3, 6} >> => move = {3, 6}

LargestOfTwo ==
    pc = "choose_heur_returned" /\ moves = << {4, 5}, {3, 6} >>
    /\ move = {3, 6}

(***************************************************************************)
(* Properties of the Monte Carlo loop                                      *)
(***************************************************************************)
\* C10: after num_games >= 1 games, 0 <= min <= mean <= max <= 123456789
\* with mean = total / num_games, and wins <= num_games
SummaryOrdered ==
    (dpc = "reported" /\ ngames >= 1) =>
        /\ played = ngames
        /\ 0 <= mins
        /\ mins * ngames <= tot
        /\ tot <= maxs * ngames
        /\ maxs <= 123456789
        /\ wins <= ngames

TwoGamesReported ==
    dpc = "reported" /\ ngames = 2 /\ mins < maxs /\ wins = 1

\* the sum of the counters hist[0..b]
RECURSIVE HistSum(_, _)
HistSum(h, b) == IF b < 0 THEN 0 ELSE h[b] + HistSum(h, b - 1)

\* C11: after every iteration all 20 counters are non-negative and sum to
\* the number of games played whose bin was in 0..19; each game adds exactly
\* one to exactly one counter, so the sum never exceeds the games played
HistCountsGames ==
    /\ [](/\ DOMAIN hist = 0..(nbins - 1)
          /\ \A b \in DOMAIN hist : hist[b] >= 0
          /\ HistSum(hist, nbins - 1) =
                Cardinality({i \in 1..Len(results) :
                                Bin(results[i][2]) \in 0..(nbins - 1)})
          /\ HistSum(hist, nbins - 1) <= Len(results))
    /\ [][results' # results =>
            \/ \E b \in DOMAIN hist : hist' = [hist EXCEPT ![b] = hist[b] + 1]
            \/ hist' = hist /\ dpc' = "IndexError"]_vars

TwoGamesInOneBin ==
    played = 2 /\ \E b \in DOMAIN hist : hist[b] = 2

\* C12 as claimed: the bin of the largest score 123456789 is 20, past the
\* 20 slots of hist
BinOfMaxScoreIsTwenty ==
    (pc \in {"bin_returned", "IndexError"} /\ score = 123456789) =>
        bin = 20 /\ bin \notin DOMAIN hist

\* C12, amended: the bin of the largest score 123456789 is 17, one of the
\* 20 slots of hist
BinOfMaxScoreIsSeventeen ==
    (pc \in {"bin_returned", "IndexError"} /\ score = 123456789) =>
        /\ bin = 17
        /\ bin \in DOMAIN hist
        /\ pc = "bin_returned"
        /\ hist[17] = 1

MaxScoreBinned == pc = "bin_returned" /\ score = 123456789 /\ bin = 17

\* C13: for every ngames the argument layer accepts (0 and negative values
\* included) and either chooser, the run reaches the summary report without
\* a runtime failure
RunNeverFails == dpc \notin {"IndexError", "ZeroDivisionError"}

\* C14: when the first roll is 2 the only choice is {2} and it is removed
\* under either chooser; a second roll with no legal move (2 again) then
\* ends the game STUCK on {1,3,4,5,6,7,8,9} with score 13456789
FirstRollTwo ==
    /\ (rolls = 1 /\ roll = 2) =>
          /\ pc \in {"choose", "remove", "roll"}
          /\ moves = << {2} >>
          /\ pc = "remove" => move = {2} /\ cur = Digits
          /\ pc = "roll" => move = {2} /\ cur = Digits \ {2}
    /\ (rolls = 2 /\ removed = {2} /\ LegalMoves(cur, roll) = {}) =>
          /\ roll = 2
          /\ pc \in {"return", "done"}
          /\ Stuck
          /\ cur = {1, 3, 4, 5, 6, 7, 8, 9}
          /\ pc = "done" => score = 13456789

TwoThenStuck ==
    /\ pc = "done" /\ chooser = "random" /\ rolls = 2 /\ roll = 2
    /\ removed = {2} /\ score = 13456789

\* C15: the digit set is always a subset of {1..9} and changes only by the
\* removal of the chosen move, which shrinks it strictly; the chooser call
\* leaves the digit set and the list of choices as they are; every game
\* starts from {1..9} again
DigitSetFrame ==
    /\ [](cur \subseteq Digits)
    /\ [][ /\ pc = "remove" =>
                /\ cur' = cur \ move
                /\ cur' \subseteq cur /\ cur' # cur
           /\ pc \in {"roll", "choose", "return"} => cur' = cur
           /\ pc = "choose" => moves' = moves
           /\ pc = "done" => cur' = Digits /\ removed' = {}
         ]_vars

TwoTurnsFiveDigits ==
    pc = "roll" /\ rolls = 2 /\ Cardinality(cur) = 4 /\ chooser = "random"

\* the number of choices on the full board for each roll 2..12
FullBoardChoices == {<<r, Len(Choices(Digits, r))>> : r \in 2..12}

\* C16: every roll 2..12 has a legal move on {1..9}, so every game removes a
\* digit: no game returns 123456789, every score is at most 13456789, the
\* bin of every score is in 0..19 and hist[bin] is never out of range
EveryScoreHasABin ==
    /\ \A p \in FullBoardChoices : p[2] > 0
    /\ \A i \in 1..Len(results) :
          /\ results[i][2] # 123456789
          /\ results[i][2] \in 0..13456789
          /\ Bin(results[i][2]) \in 0..(nbins - 1)
    /\ Len(results) > 0 => bin = Bin(score) /\ bin \in DOMAIN hist
    /\ dpc # "IndexError"

LargestScoreBinned ==
    played = 2 /\ score = 13456789 /\ bin = 15 /\ hist[15] = 1

\* C17: play() returns 0 exactly when the game ended EXHAUSTED, a STUCK game
\* returns a score >= 1, and wins is the number of games that ended
\* EXHAUSTED
WinsAreExhaustedGames ==
    /\ \A i \in 1..Len(results) :
          /\ results[i][1] \in {"while", "break"}
          /\ results[i][2] = 0 <=> results[i][1] = "while"
          /\ results[i][1] = "break" => results[i][2] >= 1
    /\ wins = Cardinality({i \in 1..Len(results) : results[i][1] = "while"})

WinThenStuckOnOne ==
    /\ played = 2 /\ wins = 1
    /\ results[1] = <<"while", 0>> /\ results[2] = <<"break", 1>>

\* the scores of the games played so far
ScoresPlayed == {results[i][2] : i \in 1..Len(results)}

RECURSIVE SeqTotal(_)
SeqTotal(rs) == IF rs = <<>> THEN 0 ELSE Head(rs)[2] + SeqTotal(Tail(rs))

\* C18: after num_games >= 1 games min is the smallest and max the largest
\* score returned, total is their sum, neither sentinel is reported unless a
\* game returned it, and wins >= 1 exactly when min = 0
StatsOfScoresPlayed ==
    (dpc = "reported" /\ ngames >= 1) =>
        /\ Len(results) = ngames
        /\ mins \in ScoresPlayed /\ \A sc \in ScoresPlayed : mins <= sc
        /\ maxs \in ScoresPlayed /\ \A sc \in ScoresPlayed : maxs >= sc
        /\ tot = SeqTotal(results)
        /\ wins >= 1 <=> mins = 0

LargerThenSmallerScore ==
    /\ dpc = "reported" /\ ngames = 2
    /\ results[1][2] > results[2][2] /\ results[2][2] > 0
    /\ mins = results[2][2] /\ maxs = results[1][2]

\* the orders the list ms can be put in
Permutations(ms) ==
    {[i \in 1..Len(ms) |-> ms[p[i]]] :
        p \in {q \in [1..Len(ms) -> 1..Len(ms)] :
                  \A i, j \in 1..Len(ms) : i # j => q[i] # q[j]}}

\* C19: choose_heur returns the same move for every order of the same
\* candidate list (with or without duplicates)
HeurIgnoresOrder ==
    pc = "choose_heur_returned" =>
        \A ms \in Permutations(moves) : ChooseHeur(cur, ms) = move

SecondOfTwoChosen ==
    /\ pc = "choose_heur_returned" /\ Len(moves) = 2
    /\ Cardinality(moves[1]) = Cardinality(moves[2])
    /\ moves[1] # moves[2] /\ move = moves[2]

====
